---- MODULE Spec2Model ----
(***************************************************************************)
(* Model of the OnDemand Tutor retrieval core:                             *)
(*   - DocumentProcessor (src/src/utils/document_processor.py): text       *)
(*     normalisation and the sliding-window chunker, stepped one loop      *)
(*     iteration at a time so that its termination is observable;          *)
(*   - QAPipeline (src/src/qa_pipeline.py) with its adapters               *)
(*     (ChromaManager, EmbeddingManager, the Mock* fallbacks).             *)
(* Texts are sequences of one-character strings.                           *)
(***************************************************************************)
EXTENDS Integers, Sequences, FiniteSets, TLC

\* ------------------------------------------------------------------ bounds
MaxRawLen == 4
MaxWords == 6
MaxChunkSize == 3
MaxOverlap == 3
MaxChunks == 5

\* ------------------------------------------------------------- characters
Letters == <<"a", "b", "c", "d", "e", "f", "g", "h", "i", "j">>

LetterSet == {Letters[i] : i \in 1..Len(Letters)}

\* \s of the regular expressions and of str.split / str.strip
IsSpace(c) == c \in {" ", "\n", "\t"}

\* the allow-list of clean_text: [\w\s.,!?;:()\-\[\]{}"]
IsAllowed(c) ==
    \/ c \in LetterSet
    \/ IsSpace(c)
    \/ c \in {".", ",", "!", "?", ";", ":", "(", ")", "-", "[", "]", "{", "}", "\""}

RawAlphabet == {"a", " ", "\n", "@"}

Min(a, b) == IF a < b THEN a ELSE b

Max(a, b) == IF a > b THEN a ELSE b

\* ------------------------------------------------------- string functions
\* re.sub(r'\s+', ' ', t): every maximal run of whitespace becomes one space
RECURSIVE CollapseWhitespace(_)
CollapseWhitespace(t) ==
    IF t = <<>> THEN <<>>
    ELSE IF IsSpace(Head(t))
         THEN IF Len(t) > 1 /\ IsSpace(t[2])
              THEN CollapseWhitespace(Tail(t))
              ELSE <<" ">> \o CollapseWhitespace(Tail(t))
         ELSE <<Head(t)>> \o CollapseWhitespace(Tail(t))

\* re.sub(r'[^\w\s.,!?;:()\-\[\]{}"]', ' ', t): each other character becomes a space
ReplaceDisallowed(t) ==
    [i \in 1..Len(t) |-> IF IsAllowed(t[i]) THEN t[i] ELSE " "]

\* re.sub(r' +', ' ', t)
RECURSIVE CollapseSpaces(_)
CollapseSpaces(t) ==
    IF t = <<>> THEN <<>>
    ELSE IF Head(t) = " " /\ Len(t) > 1 /\ t[2] = " "
         THEN CollapseSpaces(Tail(t))
         ELSE <<Head(t)>> \o CollapseSpaces(Tail(t))

RECURSIVE LStrip(_)
LStrip(t) ==
    IF t # <<>> /\ IsSpace(Head(t)) THEN LStrip(Tail(t)) ELSE t

RECURSIVE RStrip(_)
RStrip(t) ==
    IF t # <<>> /\ IsSpace(t[Len(t)]) THEN RStrip(SubSeq(t, 1, Len(t) - 1)) ELSE t

\* str.strip()
Strip(t) == RStrip(LStrip(t))

\* DocumentProcessor.clean_text
clean_text(t) == Strip(CollapseSpaces(ReplaceDisallowed(CollapseWhitespace(t))))

\* str.split(): the maximal runs of non-whitespace characters, in order.
\* cur is the word being read.
RECURSIVE SplitFrom(_, _)
SplitFrom(t, cur) ==
    IF t = <<>>
    THEN IF cur = <<>> THEN <<>> ELSE <<cur>>
    ELSE IF IsSpace(Head(t))
         THEN IF cur = <<>>
              THEN SplitFrom(Tail(t), <<>>)
              ELSE <<cur>> \o SplitFrom(Tail(t), <<>>)
         ELSE SplitFrom(Tail(t), Append(cur, Head(t)))

Split(t) == SplitFrom(t, <<>>)

\* ' '.join(ws)
RECURSIVE Join(_)
Join(ws) ==
    IF ws = <<>> THEN <<>>
    ELSE IF Len(ws) = 1 THEN ws[1]
    ELSE ws[1] \o <<" ">> \o Join(Tail(ws))

\* Python's index normalisation in a slice: a negative bound counts from the
\* end, and both bounds are clipped to 0..n
SliceBound(i, n) == IF i < 0 THEN Max(i + n, 0) ELSE Min(i, n)

\* words[start:end] with 0-based, possibly negative bounds
PySlice(ws, start, end) ==
    SubSeq(ws, SliceBound(start, Len(ws)) + 1, SliceBound(end, Len(ws)))

\* ------------------------------------------------------------------ state
VARIABLES
    \* DocumentProcessor and one call of process_single_file / chunk_text
    raw_text,        \* what read_document extracted from the file
    chunk_size,      \* self.chunk_size
    chunk_overlap,   \* self.chunk_overlap
    text,            \* the text argument of chunk_text
    words,           \* text.split()
    chunks,          \* the list being built, then returned
    chunk_index,
    start_idx,
    pc,              \* "idle", "chunk_text", "loop" or "done" (returned)
    caller,          \* who called chunk_text: "process_single_file" or "direct"
    \* QAPipeline
    dependencies_available,
    is_initialized,
    embedding_manager,   \* "None", "Mock" or "Real"
    chroma_manager,
    llm_manager,
    collection,          \* the items of the persistent Chroma collection
    course_dir,          \* COURSE_MATERIALS_DIR: whether it exists, and its files
    last,                \* the last call on the pipeline and what it returned
    ingested             \* history: the chunk ids of the last successful
                         \* setup_knowledge_base and the store's size after it

chunkerVars ==
    <<raw_text, chunk_size, chunk_overlap, text, words, chunks, chunk_index, start_idx,
      pc, caller>>

pipelineVars ==
    <<dependencies_available, is_initialized, embedding_manager, chroma_manager,
      llm_manager, collection, course_dir, last, ingested>>

\* ------------------------------------------------------------ input texts
RECURSIVE SeqsUpTo(_, _)
SeqsUpTo(S, n) ==
    IF n = 0 THEN {<<>>}
    ELSE LET shorter == SeqsUpTo(S, n - 1)
         IN shorter \cup {Append(t, c) : t \in shorter, c \in S}

RawTexts == SeqsUpTo(RawAlphabet, MaxRawLen)

\* a normalised text of n distinct one-letter words
WordsText(n) == Join([i \in 1..n |-> <<Letters[i]>>])

LongTexts == {WordsText(n) : n \in 1..MaxWords}

\* the metadata dict process_single_file builds (the keys the chunker and the
\* chunk ids read)
FileMetadata == [source_file |-> "doc.txt"]

\* ---------------------------------------------------------------- chunker
\* DocumentProcessor.__init__ and a file whose text has been extracted
InitChunker ==
    /\ raw_text \in RawTexts \cup LongTexts
    /\ chunk_size \in 1..MaxChunkSize
    /\ chunk_overlap \in 0..MaxOverlap
    /\ text = <<>>
    /\ words = <<>>
    /\ chunks = <<>>
    /\ chunk_index = 0
    /\ start_idx = 0
    /\ pc = "idle"
    /\ caller = "none"

\* process_single_file up to its call of chunk_text: a file with no content
\* returns [] at once, any other text is cleaned and handed to chunk_text
ProcessSingleFile ==
    /\ pc = "idle"
    /\ IF Strip(raw_text) = <<>>
       THEN /\ pc' = "done"
            /\ text' = text
       ELSE /\ text' = clean_text(raw_text)
            /\ pc' = "chunk_text"
    /\ caller' = "process_single_file"
    /\ UNCHANGED pipelineVars
    /\ UNCHANGED <<raw_text, chunk_size, chunk_overlap, words, chunks, chunk_index, start_idx>>

\* chunk_text called on a text as it is
CallChunkText ==
    /\ pc = "idle"
    /\ text' = raw_text
    /\ pc' = "chunk_text"
    /\ caller' = "direct"
    /\ UNCHANGED pipelineVars
    /\ UNCHANGED <<raw_text, chunk_size, chunk_overlap, words, chunks, chunk_index, start_idx>>

FitsOneChunk_Strict(n, size) == n < size

\* the test that sends a text down the single-chunk path
FitsOneChunk(n, size) == n <= size

\* chunk_text, lines 87-99: split, then either the single chunk or loop entry
ChunkTextEnter ==
    /\ pc = "chunk_text"
    /\ words' = Split(text)
    /\ IF FitsOneChunk(Len(Split(text)), chunk_size)
       THEN /\ chunks' = <<[content |-> text, metadata |-> FileMetadata, chunk_index |-> 0]>>
            /\ pc' = "done"
       ELSE /\ chunks' = <<>>
            /\ pc' = "loop"
    /\ chunk_index' = 0
    /\ start_idx' = 0
    /\ UNCHANGED pipelineVars
    /\ UNCHANGED <<raw_text, chunk_size, chunk_overlap, text, caller>>

\* end_idx of one iteration
WindowEnd(start, size, n) == Min(start + size, n)

NextStart_NoOverlap(end, overlap) == end

\* the start index of the next iteration
NextStart(end, overlap) == end - overlap

\* one iteration of the while loop, lines 101-119
ChunkLoopStep ==
    /\ pc = "loop"
    /\ start_idx < Len(words)
    /\ Len(chunks) < MaxChunks
    /\ UNCHANGED pipelineVars
    /\ LET end_idx == WindowEnd(start_idx, chunk_size, Len(words))
           chunk_words == PySlice(words, start_idx, end_idx)
           chunk_metadata == [source_file |-> FileMetadata.source_file,
                              chunk_index |-> chunk_index,
                              start_word |-> start_idx,
                              end_word |-> end_idx]
       IN /\ chunks' = Append(chunks, [content |-> Join(chunk_words),
                                       metadata |-> chunk_metadata,
                                       chunk_index |-> chunk_index])
          /\ start_idx' = NextStart(end_idx, chunk_overlap)
          /\ chunk_index' = chunk_index + 1
    /\ UNCHANGED <<raw_text, chunk_size, chunk_overlap, text, words, pc, caller>>

\* the loop condition fails: return chunks
ChunkLoopExit ==
    /\ pc = "loop"
    /\ ~(start_idx < Len(words))
    /\ UNCHANGED pipelineVars
    /\ pc' = "done"
    /\ UNCHANGED <<raw_text, chunk_size, chunk_overlap, text, words, chunks, chunk_index, start_idx,
                   caller>>

\* -------------------------------------------------------------- pipeline
\* the scale of distances and similarities: DistanceScale units make 1.0
DistanceScale == 2

\* the distances the store reports, cosine or squared L2, between 0.0 and 2.0
Distances == {0, DistanceScale, 2 * DistanceScale}

MaxTopK == 2

\* the approximation of a page: chunks per page
ChunksPerPage == 3

\* the length of a source's content preview
PreviewLength == 500

\* dict.get(key, default)
Get(m, key, default) == IF key \in DOMAIN m THEN m[key] ELSE default

\* the id EmbeddingManager.encode_chunks gives a chunk
ChunkId(source_file, index) == <<source_file, "_chunk_", index>>

\* what earlier runs of this or another front end can have left in the database
PersistedItems ==
    { [id |-> ChunkId("a.txt", 0), content |-> <<"a">>,
       metadata |-> [source_file |-> "a.txt"]],
      [id |-> ChunkId("b.pdf", 1), content |-> <<"b", " ", "c">>,
       metadata |-> [source_file |-> "b.pdf", chunk_index |-> 1,
                     start_word |-> 1, end_word |-> 3]],
      [id |-> ChunkId("b.pdf", 4), content |-> <<"d">>,
       metadata |-> [source_file |-> "b.pdf", chunk_index |-> 4, page_number |-> 7]] }

\* settings.py
CHUNK_SIZE == 1000

CHUNK_OVERLAP == 200

SUPPORTED_FILE_TYPES == {".pdf", ".docx", ".txt", ".md"}

MaxFiles == 2

\* files a course directory can hold: dir is "" for the directory itself; raw is
\* the text read_document extracts (empty when extraction fails), followed by
\* extra_words further words that are not spelled out
CorpusFiles ==
    { [dir |-> "", name |-> "a.txt", suffix |-> ".txt",
       raw |-> <<"a", "\n", "b">>, extra_words |-> 0],
      [dir |-> "week1", name |-> "a.txt", suffix |-> ".txt",
       raw |-> <<"c">>, extra_words |-> 0],
      [dir |-> "", name |-> "b.pdf", suffix |-> ".pdf",
       raw |-> <<>>, extra_words |-> 0],
      [dir |-> "", name |-> "c.md", suffix |-> ".md",
       raw |-> <<"@">>, extra_words |-> 0],
      [dir |-> "", name |-> "d.txt", suffix |-> ".txt",
       raw |-> <<"a">>, extra_words |-> 1349],
      [dir |-> "", name |-> "n.png", suffix |-> ".png",
       raw |-> <<"a">>, extra_words |-> 0] }

Corpora == {fs \in SUBSET CorpusFiles : Cardinality(fs) <= MaxFiles}

SampleFile_Blank ==
    [dir |-> "", name |-> "sample_content.txt", suffix |-> ".txt",
     raw |-> <<"\n">>, extra_words |-> 0]

\* the file _create_sample_content writes
SampleFile ==
    [dir |-> "", name |-> "sample_content.txt", suffix |-> ".txt",
     raw |-> <<"s", "\n", "\n", "t">>, extra_words |-> 0]

Questions == {<<>>, <<" ", "\t">>, <<" ", "q", "?">>}

Construct_FallbackLoaded(numpy, sentence_transformers, chromadb, gpt4all, imports_ok) ==
    LET available == numpy /\ sentence_transformers /\ chromadb /\ gpt4all
    IN IF available /\ imports_ok
       THEN [dependencies_available |-> TRUE, is_initialized |-> FALSE,
             embedding_manager |-> "None", chroma_manager |-> "None",
             llm_manager |-> "None"]
       ELSE [dependencies_available |-> FALSE, is_initialized |-> TRUE,
             embedding_manager |-> "Mock", chroma_manager |-> "Mock",
             llm_manager |-> "Mock"]

\* QAPipeline.__init__: the probe of the four libraries, then the imports of the
\* local modules
Construct(numpy, sentence_transformers, chromadb, gpt4all, imports_ok) ==
    LET available == numpy /\ sentence_transformers /\ chromadb /\ gpt4all
    IN IF available /\ imports_ok
       THEN [dependencies_available |-> TRUE, is_initialized |-> FALSE,
             embedding_manager |-> "None", chroma_manager |-> "None",
             llm_manager |-> "None"]
       ELSE [dependencies_available |-> FALSE, is_initialized |-> FALSE,
             embedding_manager |-> "Mock", chroma_manager |-> "Mock",
             llm_manager |-> "Mock"]

InitPipeline ==
    /\ \E numpy, st, chromadb, gpt4all, imports_ok \in BOOLEAN :
           LET p == Construct(numpy, st, chromadb, gpt4all, imports_ok)
           IN /\ dependencies_available = p.dependencies_available
              /\ is_initialized = p.is_initialized
              /\ embedding_manager = p.embedding_manager
              /\ chroma_manager = p.chroma_manager
              /\ llm_manager = p.llm_manager
    /\ collection \in SUBSET PersistedItems
    /\ course_dir \in {[exists |-> FALSE, files |-> {}]}
                        \cup {[exists |-> TRUE, files |-> fs] : fs \in Corpora}
    /\ last = [op |-> "idle"]
    /\ ingested = <<>>

\* the ways one run of the three constructors can end: "ok", or the constructor
\* that raised
LoadOutcomes == {"ok", "EmbeddingManager", "ChromaManager", "GPT4AllManager"}

SkipsLoad_WithoutDependenciesOnly == ~dependencies_available

\* _lazy_init_components returns at its first line
SkipsLoad == is_initialized \/ ~dependencies_available

LoadOutcomesNow == IF SkipsLoad THEN {"skipped"} ELSE LoadOutcomes

LazyInit_KeepsConstructed(load) ==
    IF SkipsLoad
    THEN UNCHANGED <<is_initialized, embedding_manager, chroma_manager, llm_manager>>
    ELSE /\ is_initialized' = (load = "ok")
         /\ embedding_manager' = IF load = "EmbeddingManager" THEN "Mock" ELSE "Real"
         /\ chroma_manager' = IF load \in {"EmbeddingManager", "ChromaManager"}
                               THEN "Mock" ELSE "Real"
         /\ llm_manager' = IF load = "ok" THEN "Real" ELSE "Mock"

\* _lazy_init_components: returns at once when loaded or without dependencies;
\* otherwise constructs the three adapters, and on any exception puts the three
\* mocks in their place
LazyInit(load) ==
    IF SkipsLoad
    THEN UNCHANGED <<is_initialized, embedding_manager, chroma_manager, llm_manager>>
    ELSE IF load = "ok"
         THEN /\ is_initialized' = TRUE
              /\ embedding_manager' = "Real"
              /\ chroma_manager' = "Real"
              /\ llm_manager' = "Real"
         ELSE /\ is_initialized' = is_initialized
              /\ embedding_manager' = "Mock"
              /\ chroma_manager' = "Mock"
              /\ llm_manager' = "Mock"

\* the constructors _lazy_init_components has run
Constructed(load) ==
    IF load = "skipped" THEN {}
    ELSE IF load = "EmbeddingManager" THEN {"EmbeddingManager"}
    ELSE IF load = "ChromaManager" THEN {"EmbeddingManager", "ChromaManager"}
    ELSE {"EmbeddingManager", "ChromaManager", "GPT4AllManager"}

\* ------------------------------------------------------------ query results
BlankResult(question) ==
    [question |-> question, answer |-> "Please provide a valid question.",
     sources |-> <<>>, context_used |-> 0, error |-> "Empty question"]

DependenciesResult(question) ==
    [question |-> question,
     answer |-> "This system requires additional dependencies to function.",
     sources |-> <<>>, context_used |-> 0, error |-> "Dependencies not available"]

NoDocumentsResult(question) ==
    [question |-> question,
     answer |-> "I couldn't find relevant information in the knowledge base.",
     sources |-> <<>>, context_used |-> 0, retrieved_docs |-> <<>>]

\* the except branch of query; e is str(e)
ExceptionResult(question, e) ==
    [question |-> question, answer |-> "An error occurred while processing your question",
     sources |-> <<>>, context_used |-> 0, error |-> e]

\* ChromaManager.query_similar_documents, lines 98-111: one formatted result
FormatResult(item, distance) ==
    [id |-> item.id, content |-> item.content, metadata |-> item.metadata,
     distance |-> distance, similarity |-> DistanceScale - distance]

\* what collection.query can answer: the n_results nearest items, nearest first
Retrievals(top_k) ==
    LET m == Min(top_k, Cardinality(collection))
    IN { [i \in 1..m |-> FormatResult(items[i], dist[i])] :
           items \in {f \in [1..m -> collection] :
                          \A i, j \in 1..m : i # j => f[i] # f[j]},
           dist \in {d \in [1..m -> Distances] :
                          \A i, j \in 1..m : i < j => d[i] <= d[j]} }

\* query, lines 346-350
ContextChunk(doc) ==
    [content |-> doc.content, metadata |-> doc.metadata, similarity |-> doc.similarity]

\* query, lines 353-360
Source(doc) ==
    [file |-> Get(doc.metadata, "source_file", "Unknown"),
     page_number |-> Get(doc.metadata, "page_number",
                         (Get(doc.metadata, "chunk_index", 0) \div ChunksPerPage) + 1),
     chunk_index |-> Get(doc.metadata, "chunk_index", 0),
     similarity |-> doc.similarity,
     content |-> SubSeq(doc.content, 1, Min(Len(doc.content), PreviewLength))]

\* the dict answer_question returns, as MockGPT4AllManager shapes it
AnswerResult(question) ==
    [question |-> question, answer |-> "generated answer", sources |-> <<>>,
     context_used |-> 0]

SuccessResult_Reversed(question, similar_docs) ==
    [question |-> AnswerResult(question).question,
     answer |-> AnswerResult(question).answer,
     sources |-> [i \in 1..Len(similar_docs) |->
                     Source(similar_docs[Len(similar_docs) + 1 - i])],
     context_used |-> Len(similar_docs),
     retrieved_docs |-> similar_docs]

\* query, lines 368-370: the result of a successful query
SuccessResult(question, similar_docs) ==
    [question |-> AnswerResult(question).question,
     answer |-> AnswerResult(question).answer,
     sources |-> [i \in 1..Len(similar_docs) |-> Source(similar_docs[i])],
     context_used |-> Len(similar_docs),
     retrieved_docs |-> similar_docs]

\* embedding_manager.encode_text: the real one can raise, the mock returns zeros
EncodeOutcomes(manager) ==
    IF manager = "Real" THEN {"ok", "raise"} ELSE {"ok"}

\* chroma_manager.query_similar_documents: the lists it can return, with the
\* exception it swallowed, if any (lines 113-115 return [] on any exception)
StoreOutcomes(manager, top_k) ==
    IF manager = "Real"
    THEN {[docs |-> r, failed |-> FALSE] : r \in Retrievals(top_k)}
             \cup {[docs |-> <<>>, failed |-> TRUE]}
    ELSE {[docs |-> <<>>, failed |-> FALSE]}

\* llm_manager.answer_question
AnswerOutcomes(manager) ==
    IF manager = "Real" THEN {"ok", "raise"} ELSE {"ok"}

\* the caller is between two calls: the pipeline is called from one thread, one
\* call at a time
Idle == last.op = "idle"

\* a call that never returns leaves nothing to call afterwards
Hung == last.op = "setup" /\ last.stage = "hung"

\* what a call of query is recorded as: its arguments and result, the adapter
\* calls it made and those that failed, the number of documents the retrieval
\* returned (-1: not reached), the context handed to answer_question, the
\* constructors the lazy load ran and is_initialized before the call
QueryRecord(question, top_k, result, calls, failed, retrieved, context, load) ==
    [op |-> "query", question |-> question, top_k |-> top_k, result |-> result,
     calls |-> calls, failed |-> failed, retrieved |-> retrieved, context |-> context,
     constructed |-> Constructed(load), loaded_before |-> is_initialized]

NoSimilarDocs_Never(similar_docs) == FALSE

\* if not similar_docs
NoSimilarDocs(similar_docs) == similar_docs = <<>>

\* the try block of query, lines 317-385, on the components left by the lazy load
QueryTry(question, top_k, load) ==
    \E enc \in EncodeOutcomes(embedding_manager') :
        IF enc = "raise"
        THEN last' = QueryRecord(question, top_k,
                         ExceptionResult(question, "encode_text failed"),
                         {"encode_text"}, {"encode_text"}, -1, <<>>, load)
        ELSE \E got \in StoreOutcomes(chroma_manager', top_k) :
            LET store_failed == IF got.failed THEN {"query_similar_documents"} ELSE {}
            IN IF NoSimilarDocs(got.docs)
               THEN last' = QueryRecord(question, top_k, NoDocumentsResult(question),
                                {"encode_text", "query_similar_documents"},
                                store_failed, Len(got.docs), <<>>, load)
               ELSE \E gen \in AnswerOutcomes(llm_manager') :
                   LET context_chunks ==
                           [i \in 1..Len(got.docs) |-> ContextChunk(got.docs[i])]
                       all_calls ==
                           {"encode_text", "query_similar_documents", "answer_question"}
                   IN IF gen = "raise"
                      THEN last' = QueryRecord(question, top_k,
                                       ExceptionResult(question, "answer_question failed"),
                                       all_calls, store_failed \cup {"answer_question"},
                                       Len(got.docs), context_chunks, load)
                      ELSE last' = QueryRecord(question, top_k,
                                       SuccessResult(question, got.docs),
                                       all_calls, store_failed, Len(got.docs),
                                       context_chunks, load)

IsBlank_NoStrip(question) == question = <<>>

\* not question or not question.strip()
IsBlank(question) == question = <<>> \/ Strip(question) = <<>>

\* QAPipeline.query
Query ==
    \E question \in Questions, top_k \in 1..MaxTopK :
        /\ Idle
        /\ IF IsBlank(question)
           THEN /\ last' = QueryRecord(question, top_k, BlankResult(question),
                               {}, {}, -1, <<>>, "skipped")
                /\ UNCHANGED <<is_initialized, embedding_manager, chroma_manager,
                               llm_manager>>
           ELSE IF ~dependencies_available
           THEN /\ last' = QueryRecord(question, top_k, DependenciesResult(question),
                               {}, {}, -1, <<>>, "skipped")
                /\ UNCHANGED <<is_initialized, embedding_manager, chroma_manager,
                               llm_manager>>
           ELSE \E load \in LoadOutcomesNow :
                    /\ LazyInit(load)
                    /\ QueryTry(question, top_k, load)
        /\ UNCHANGED <<dependencies_available, collection, course_dir, ingested>>
        /\ UNCHANGED chunkerVars

\* ---------------------------------------------------- setup_knowledge_base
\* the spans of the while loop of chunk_text on n words, as far as fuel
\* iterations go; done tells whether the loop has ended by then
RECURSIVE LoopSpans(_, _, _, _, _, _)
LoopSpans(start, index, n, size, overlap, fuel) ==
    IF ~(start < n) THEN [spans |-> <<>>, done |-> TRUE]
    ELSE IF fuel = 0 THEN [spans |-> <<>>, done |-> FALSE]
    ELSE LET end == WindowEnd(start, size, n)
             rest == LoopSpans(NextStart(end, overlap), index + 1, n, size, overlap,
                               fuel - 1)
         IN [spans |-> <<[chunk_index |-> index, start_word |-> start,
                          end_word |-> end]>> \o rest.spans,
             done |-> rest.done]

FilePath(f) == <<f.dir, f.name>>

\* process_single_file with the DocumentProcessor() of the pipeline
\* (CHUNK_SIZE, CHUNK_OVERLAP): the chunks of one file, and whether the call
\* returns. The words of a long file are not spelled out, so the content of
\* its chunks stands for the window's words.
ProcessFile(f) ==
    LET cleaned == clean_text(f.raw)
        n == Len(Split(cleaned)) + f.extra_words
        meta == [source_file |-> f.name, file_path |-> FilePath(f)]
    IN IF Strip(f.raw) = <<>> /\ f.extra_words = 0
       THEN [chunks |-> {}, returns |-> TRUE]
       ELSE IF FitsOneChunk(n, CHUNK_SIZE)
       THEN [chunks |-> {[content |-> cleaned, metadata |-> meta, chunk_index |-> 0]},
             returns |-> TRUE]
       ELSE LET loop == LoopSpans(0, 0, n, CHUNK_SIZE, CHUNK_OVERLAP, MaxChunks)
            IN [chunks |-> {[content |-> cleaned,
                             metadata |-> [source_file |-> f.name,
                                           file_path |-> FilePath(f),
                                           chunk_index |-> loop.spans[i].chunk_index,
                                           start_word |-> loop.spans[i].start_word,
                                           end_word |-> loop.spans[i].end_word],
                             chunk_index |-> loop.spans[i].chunk_index] :
                                i \in 1..Len(loop.spans)},
                returns |-> loop.done]

\* the files the glob("*") of setup_knowledge_base counts: entries of the
\* directory itself with a supported suffix
SupportedFiles(files) ==
    {f \in files : f.dir = "" /\ f.suffix \in SUPPORTED_FILE_TYPES}

\* the files process_directory processes: rglob('*'), every level
ProcessedFiles(files) == {f \in files : f.suffix \in SUPPORTED_FILE_TYPES}

ProcessDirectory_AbortsOnBadFile(files) ==
    IF \E f \in {g \in files : g.suffix \in SUPPORTED_FILE_TYPES} :
           Strip(f.raw) = <<>> /\ f.extra_words = 0
    THEN [chunks |-> {}, returns |-> TRUE]
    ELSE [chunks |-> UNION {ProcessFile(f).chunks :
                               f \in {g \in files : g.suffix \in SUPPORTED_FILE_TYPES}},
          returns |-> \A f \in {g \in files : g.suffix \in SUPPORTED_FILE_TYPES} :
                          ProcessFile(f).returns]

\* process_directory: all chunks, and whether every process_single_file returned
ProcessDirectory(files) ==
    [chunks |-> UNION {ProcessFile(f).chunks : f \in ProcessedFiles(files)},
     returns |-> \A f \in ProcessedFiles(files) : ProcessFile(f).returns]

\* EmbeddingManager.encode_chunks, lines 80-87 (the vector is left out)
EncodedChunk(chunk) ==
    [id |-> ChunkId(chunk.metadata.source_file, chunk.chunk_index),
     content |-> chunk.content,
     metadata |-> chunk.metadata,
     file_path |-> chunk.metadata.file_path]

\* what add_documents hands to collection.add for one encoded chunk
StoredItem(encoded) ==
    [id |-> encoded.id, content |-> encoded.content, metadata |-> encoded.metadata]

\* collection.add refuses a batch that repeats an id
HasDuplicateIds(encoded) ==
    \E c1, c2 \in encoded : c1 # c2 /\ c1.id = c2.id

\* collection.add of a batch without repeated ids: an id the collection holds
\* already keeps its stored item
AddToCollection(encoded) ==
    collection \cup {StoredItem(c) : c \in {e \in encoded :
                                        \A it \in collection : it.id # e.id}}

\* the stage calls setup_knowledge_base has made, in order, when it ends at a
\* stage: process_directory at line 213, encode_chunks at line 229,
\* add_documents at line 245
StageCalls(stage) ==
    IF stage \in {"dependencies", "directory"} THEN <<>>
    ELSE IF stage \in {"hung", "chunk"} THEN <<"process_directory">>
    ELSE IF stage = "embed" THEN <<"process_directory", "encode_chunks">>
    ELSE <<"process_directory", "encode_chunks", "add_documents">>

SetupRecord(force_rebuild, ok, stage, load, ids) ==
    [op |-> "setup", force_rebuild |-> force_rebuild, ok |-> ok, stage |-> stage,
     constructed |-> Constructed(load), loaded_before |-> is_initialized,
     chunk_ids |-> ids, calls |-> StageCalls(stage)]

\* QAPipeline.setup_knowledge_base
SetupKnowledgeBase ==
    \E force_rebuild \in BOOLEAN, load \in LoadOutcomesNow :
        /\ Idle
        /\ IF ~dependencies_available
           THEN /\ last' = SetupRecord(force_rebuild, FALSE, "dependencies", load, {})
                /\ UNCHANGED <<is_initialized, embedding_manager, chroma_manager,
                               llm_manager, collection, course_dir>>
           ELSE /\ LazyInit(load)
                /\ IF ~course_dir.exists
                   THEN /\ course_dir' = [exists |-> TRUE, files |-> {}]
                        /\ last' = SetupRecord(force_rebuild, FALSE, "directory", load, {})
                        /\ UNCHANGED collection
                   ELSE LET files == IF SupportedFiles(course_dir.files) = {}
                                     THEN course_dir.files \cup {SampleFile}
                                     ELSE course_dir.files
                            processed == ProcessDirectory(files)
                            encoded == {EncodedChunk(c) : c \in processed.chunks}
                            ids == {e.id : e \in encoded}
                        IN /\ course_dir' = [exists |-> TRUE, files |-> files]
                           /\ IF ~processed.returns
                              THEN /\ last' = SetupRecord(force_rebuild, FALSE, "hung",
                                                          load, {})
                                   /\ UNCHANGED collection
                              ELSE IF processed.chunks = {}
                              THEN /\ last' = SetupRecord(force_rebuild, FALSE, "chunk",
                                                          load, {})
                                   /\ UNCHANGED collection
                              ELSE IF embedding_manager' # "Real"
                              THEN /\ last' = SetupRecord(force_rebuild, FALSE, "embed",
                                                          load, ids)
                                   /\ UNCHANGED collection
                              ELSE \E encode_ok, add_ok \in BOOLEAN :
                                       IF ~encode_ok
                                       THEN /\ last' = SetupRecord(force_rebuild, FALSE,
                                                                   "embed", load, ids)
                                            /\ UNCHANGED collection
                                       ELSE IF ~add_ok \/ HasDuplicateIds(encoded)
                                       THEN /\ last' = SetupRecord(force_rebuild, FALSE,
                                                                   "store", load, ids)
                                            /\ UNCHANGED collection
                                       ELSE /\ collection' = AddToCollection(encoded)
                                            /\ last' = SetupRecord(force_rebuild, TRUE,
                                                                   "done", load, ids)
        /\ ingested' = IF last'.ok
                       THEN <<[ids |-> last'.chunk_ids, total |-> Cardinality(collection')]>>
                       ELSE ingested
        /\ UNCHANGED dependencies_available
        /\ UNCHANGED chunkerVars

\* ------------------------------------------------ stats and cleanup
\* ChromaManager.get_collection_stats / MockChromaManager.get_collection_stats
CollectionStats(manager) ==
    IF manager = "Real"
    THEN [total_documents |-> Cardinality(collection),
          unique_source_files |->
              Cardinality({it.metadata.source_file : it \in collection})]
    ELSE [total_documents |-> 0, unique_source_files |-> 0]

Stats_NoDependencyBranch ==
    IF chroma_manager # "None"
    THEN [database |-> CollectionStats(chroma_manager),
          system_status |-> IF is_initialized THEN "Ready" ELSE "Not initialized"]
    ELSE [database |-> [total_documents |-> 0, unique_source_files |-> 0],
          system_status |-> "Not initialized"]

\* QAPipeline.get_knowledge_base_stats
Stats ==
    IF ~dependencies_available
    THEN [database |-> [total_documents |-> 0, unique_source_files |-> 0],
          system_status |-> "Dependencies missing"]
    ELSE IF chroma_manager # "None"
    THEN [database |-> CollectionStats(chroma_manager),
          system_status |-> IF is_initialized THEN "Ready" ELSE "Not initialized"]
    ELSE [database |-> [total_documents |-> 0, unique_source_files |-> 0],
          system_status |-> "Not initialized"]

\* EmbeddingManager.get_model_info encodes a sample text, which can raise;
\* get_knowledge_base_stats catches nothing
StatsOutcomes ==
    IF dependencies_available /\ embedding_manager = "Real"
    THEN {"ok", "raise"} ELSE {"ok"}

GetKnowledgeBaseStats_Loads ==
    /\ Idle
    /\ \E load \in LoadOutcomesNow :
           /\ LazyInit(load)
           /\ last' = [op |-> "stats", raised |-> FALSE, stats |-> Stats]
    /\ UNCHANGED <<dependencies_available, collection, course_dir, ingested>>
    /\ UNCHANGED chunkerVars

GetKnowledgeBaseStats ==
    /\ Idle
    /\ \E outcome \in StatsOutcomes :
           last' = IF outcome = "ok"
                   THEN [op |-> "stats", raised |-> FALSE, stats |-> Stats]
                   ELSE [op |-> "stats", raised |-> TRUE]
    /\ UNCHANGED <<dependencies_available, is_initialized, embedding_manager,
                   chroma_manager, llm_manager, collection, course_dir, ingested>>
    /\ UNCHANGED chunkerVars

Cleanup_Unloads ==
    /\ Idle
    /\ last' = [op |-> "cleanup", llm_cleanup |-> llm_manager # "None"]
    /\ is_initialized' = FALSE
    /\ embedding_manager' = IF dependencies_available THEN "None" ELSE embedding_manager
    /\ chroma_manager' = IF dependencies_available THEN "None" ELSE chroma_manager
    /\ llm_manager' = IF dependencies_available THEN "None" ELSE llm_manager
    /\ UNCHANGED <<dependencies_available, collection, course_dir, ingested>>
    /\ UNCHANGED chunkerVars

\* QAPipeline.cleanup: llm_manager.cleanup() when there is a manager
Cleanup ==
    /\ Idle
    /\ last' = [op |-> "cleanup", llm_cleanup |-> llm_manager # "None"]
    /\ UNCHANGED <<dependencies_available, is_initialized, embedding_manager,
                   chroma_manager, llm_manager, collection, course_dir, ingested>>
    /\ UNCHANGED chunkerVars

\* the caller takes what the call returned (as the front ends and the test
\* scripts do) before it calls again
Return ==
    /\ ~Idle
    /\ ~Hung
    /\ last' = [op |-> "idle"]
    /\ UNCHANGED <<dependencies_available, is_initialized, embedding_manager,
                   chroma_manager, llm_manager, collection, course_dir, ingested>>
    /\ UNCHANGED chunkerVars

\* -------------------------------------------------------- specifications
\* the pipeline while a chunker is exercised on its own
PipelineIdle ==
    /\ dependencies_available = FALSE
    /\ is_initialized = FALSE
    /\ embedding_manager = "Mock"
    /\ chroma_manager = "Mock"
    /\ llm_manager = "Mock"
    /\ collection = {}
    /\ course_dir = [exists |-> FALSE, files |-> {}]
    /\ last = [op |-> "idle"]
    /\ ingested = <<>>

\* the pipeline's own DocumentProcessor between calls
ChunkerIdle ==
    /\ raw_text = <<>>
    /\ chunk_size = CHUNK_SIZE
    /\ chunk_overlap = CHUNK_OVERLAP
    /\ text = <<>>
    /\ words = <<>>
    /\ chunks = <<>>
    /\ chunk_index = 0
    /\ start_idx = 0
    /\ pc = "idle"
    /\ caller = "none"

NextChunker ==
    \/ ProcessSingleFile
    \/ CallChunkText
    \/ ChunkTextEnter
    \/ ChunkLoopStep
    \/ ChunkLoopExit

vars == <<chunkerVars, pipelineVars>>

InitChunkerAlone == InitChunker /\ PipelineIdle

SpecChunker == InitChunkerAlone /\ [][NextChunker]_vars

Next ==
    \/ Query
    \/ SetupKnowledgeBase
    \/ GetKnowledgeBaseStats
    \/ Cleanup
    \/ Return

Init == ChunkerIdle /\ InitPipeline

Spec == Init /\ [][Next]_vars

\* ------------------------------------------------------- citation display
MaxSources == 4

MaxPage == 5

\* file names as the characters of Path(file_name).name
BibFiles == {<<"a", "b", ".", "t">>, <<"A", "_", "b", ".", "p">>}

\* the sources handed to create_bibliography, shaped as query builds them
BibSources == [file : BibFiles, page_number : 1..MaxPage]

BibSourceLists == SeqsUpTo(BibSources, MaxSources)

\* the index of the last "." of a name that starts a suffix, 0 when there is none
LastDot(name) ==
    LET dots == {i \in 2..Len(name) : name[i] = "."}
    IN IF dots = {} THEN 0 ELSE CHOOSE i \in dots : \A j \in dots : j <= i

\* Path(file_name).stem
Stem(name) ==
    IF LastDot(name) = 0 THEN name ELSE SubSeq(name, 1, LastDot(name) - 1)

\* str.replace('_', ' ')
ReplaceUnderscores(t) == [i \in 1..Len(t) |-> IF t[i] = "_" THEN " " ELSE t[i]]

IsCased(c) == c \in {"a", "b", "A", "B"}

Upper(c) == IF c = "a" THEN "A" ELSE IF c = "b" THEN "B" ELSE c

Lower(c) == IF c = "A" THEN "a" ELSE IF c = "B" THEN "b" ELSE c

\* str.title(): a cased character is upper after an uncased one or at the
\* start, lower after a cased one
Title(t) ==
    [i \in 1..Len(t) |->
        IF i > 1 /\ IsCased(t[i - 1]) THEN Lower(t[i]) ELSE Upper(t[i])]

BaseName(file_name) == Title(ReplaceUnderscores(Stem(file_name)))

\* sorted(S) for a set of integers
RECURSIVE Sorted(_)
Sorted(S) ==
    IF S = {} THEN <<>>
    ELSE LET least == CHOOSE x \in S : \A y \in S : x <= y
         IN <<least>> \o Sorted(S \ {least})

\* the page text of one entry: word is "Page" or "Pages", numbers are the page
\* numbers printed and sep is what joins them
PageText(unique_pages) ==
    IF Len(unique_pages) = 1
    THEN [word |-> "Page", numbers |-> unique_pages, sep |-> ""]
    ELSE IF Len(unique_pages) <= 3
    THEN [word |-> "Pages", numbers |-> unique_pages, sep |-> ", "]
    ELSE [word |-> "Pages",
          numbers |-> <<unique_pages[1], unique_pages[Len(unique_pages)]>>,
          sep |-> "-"]

\* the entry of one file: its pages are those of all sources of that file
BibEntry(file_name, sources) ==
    LET pages == {sources[i].page_number :
                      i \in {j \in 1..Len(sources) : sources[j].file = file_name}}
    IN [name |-> BaseName(file_name), page_text |-> PageText(Sorted(pages))]

\* the loop of create_bibliography from the k-th source on
RECURSIVE BibliographyFrom(_, _, _)
BibliographyFrom(sources, k, seen_files) ==
    IF k > Len(sources) THEN <<>>
    ELSE IF sources[k].file \in seen_files
    THEN BibliographyFrom(sources, k + 1, seen_files)
    ELSE <<BibEntry(sources[k].file, sources)>>
             \o BibliographyFrom(sources, k + 1, seen_files \cup {sources[k].file})

\* create_bibliography: the entries that are joined by blank lines
create_bibliography(sources) == BibliographyFrom(sources, 1, {})

\* the front end renders the bibliography of a list of sources
CreateBibliography ==
    /\ Idle
    /\ \E sources \in BibSourceLists :
           last' = [op |-> "bibliography", sources |-> sources,
                    entries |-> create_bibliography(sources)]
    /\ UNCHANGED <<dependencies_available, is_initialized, embedding_manager,
                   chroma_manager, llm_manager, collection, course_dir, ingested>>
    /\ UNCHANGED chunkerVars

NextBibliography == CreateBibliography \/ Return

InitBibliography == ChunkerIdle /\ PipelineIdle

SpecBibliography == InitBibliography /\ [][NextBibliography]_vars

\* =================================================================== claims
\* chunk_text has split its argument (words is text.split())
Entered == pc \in {"loop", "done"} /\ caller # "none"

\* the text has more words than one chunk holds
LongText == Entered /\ Len(words) > chunk_size

ValidOverlap == chunk_overlap < chunk_size

\* the word positions [start_word, end_word) of the i-th chunk of the loop
Span(i) == {w \in 0..(Len(words) - 1) :
                chunks[i].metadata.start_word <= w /\ w < chunks[i].metadata.end_word}

\* C1: for n > chunk_size and 0 <= overlap < chunk_size the window stops once a
\* window's end has reached the end of the text: no chunk is emitted after a
\* chunk whose end_word is n, so only the last chunk of the list ends at n.
C1_StopsAtTextEnd ==
    (LongText /\ ValidOverlap) =>
        \A i \in 1..(Len(chunks) - 1) : chunks[i].metadata.end_word < Len(words)

\* C2: for n > chunk_size and 0 <= overlap < chunk_size the chunks are exactly
\* the windows k = 0..K: the chunk of ordinal k spans
\* [k*(chunk_size-overlap), min(k*(chunk_size-overlap)+chunk_size, n)), no window
\* follows the first one that ends at n, and the returned list ends with it.
C2_ExactWindows ==
    (LongText /\ ValidOverlap) =>
        LET step == chunk_size - chunk_overlap
            n == Len(words)
        IN /\ \A i \in 1..Len(chunks) :
                  /\ chunks[i].chunk_index = i - 1
                  /\ chunks[i].metadata.start_word = (i - 1) * step
                  /\ chunks[i].metadata.end_word = Min((i - 1) * step + chunk_size, n)
                  /\ \A j \in 1..(i - 1) : Min((j - 1) * step + chunk_size, n) < n
           /\ pc = "done" =>
                  /\ chunks # <<>>
                  /\ chunks[Len(chunks)].metadata.end_word = n

\* C3: with overlap >= chunk_size chunk_text on a text of more than chunk_size
\* words emits no chunk (it fails fast instead).
C3_BadOverlapEmitsNothing ==
    (LongText /\ chunk_overlap >= chunk_size) => chunks = <<>>

\* C4: for n > chunk_size and overlap < chunk_size, every two consecutive chunks
\* share exactly overlap words (the last pair included), every chunk holds at
\* most chunk_size words, the spans start at 0 and leave no gap, and they cover
\* [0, n) once a chunk has reached the end of the text.
C4_OverlapSizeCoverage ==
    (LongText /\ ValidOverlap) =>
        /\ \A i \in 1..Len(chunks) :
               /\ Len(Split(chunks[i].content)) = Cardinality(Span(i))
               /\ Len(Split(chunks[i].content)) <= chunk_size
               /\ Cardinality(Span(i)) =
                      chunks[i].metadata.end_word - chunks[i].metadata.start_word
        /\ \A i \in 1..(Len(chunks) - 1) :
               /\ Cardinality(Span(i) \cap Span(i + 1)) = chunk_overlap
               /\ chunks[i + 1].metadata.start_word <= chunks[i].metadata.end_word
               /\ chunks[i + 1].metadata.start_word >= chunks[i].metadata.start_word
        /\ chunks # <<>> => chunks[1].metadata.start_word = 0
        /\ (pc = "done" \/ \E i \in 1..Len(chunks) : chunks[i].metadata.end_word = Len(words))
               => UNION {Span(i) : i \in 1..Len(chunks)} = 0..(Len(words) - 1)

C4_Witness ==
    /\ LongText
    /\ chunk_overlap > 0
    /\ ValidOverlap
    /\ Len(chunks) >= 3
    /\ chunks[Len(chunks)].metadata.end_word = Len(words)

\* C5: a non-empty text of at most chunk_size words gives exactly one chunk, of
\* ordinal 0, whose content is the text handed in; through process_single_file
\* that is the normalised text of the file.
C5_SingleChunk ==
    (Entered /\ Len(words) >= 1 /\ Len(words) <= chunk_size) =>
        /\ pc = "done"
        /\ Len(chunks) = 1
        /\ chunks[1].chunk_index = 0
        /\ chunks[1].content = text
        /\ caller = "process_single_file" => chunks[1].content = clean_text(raw_text)

C5_Witness ==
    /\ pc = "done"
    /\ caller = "process_single_file"
    /\ Len(words) = chunk_size
    /\ Len(words) >= 2
    /\ raw_text # text
    /\ Len(chunks) = 1

\* C6: a text of zero words gives no chunk, and no chunk with empty content is
\* ever produced.
C6_EmptyTextNoChunk ==
    Entered =>
        /\ Len(words) = 0 => chunks = <<>>
        /\ \A i \in 1..Len(chunks) : chunks[i].content # <<>>

\* a question with nothing but whitespace in it
BlankQuestion(question) == \A i \in 1..Len(question) : IsSpace(question[i])

ResultFields == {"question", "answer", "sources", "context_used", "retrieved_docs"}

\* C7: in every pipeline state a query with an empty or whitespace-only
\* question returns a result carrying error, calls no adapter, constructs no
\* component and leaves the load state and the components as they were.
C7_BlankQuestionRejected ==
    [][(Idle /\ last'.op = "query" /\ BlankQuestion(last'.question)) =>
           /\ "error" \in DOMAIN last'.result
           /\ last'.calls = {}
           /\ last'.constructed = {}
           /\ UNCHANGED <<dependencies_available, is_initialized, embedding_manager,
                          chroma_manager, llm_manager, collection>>]_vars

C7_Witness ==
    /\ last.op = "query"
    /\ last.question = <<" ", "\t">>
    /\ dependencies_available
    /\ ~is_initialized
    /\ embedding_manager = "None"
    /\ "error" \in DOMAIN last.result

\* C8: when the retrieval returns zero items for a non-blank question, query
\* returns the fixed "no relevant information" answer with empty sources and
\* context_used = 0 and does not call answer_question; answer_question is never
\* called with an empty context.
C8_NoDocumentsNoGeneration ==
    last.op = "query" =>
        /\ last.retrieved = 0 =>
               /\ last.result.answer =
                      "I couldn't find relevant information in the knowledge base."
               /\ last.result.sources = <<>>
               /\ last.result.context_used = 0
               /\ "answer_question" \notin last.calls
        /\ "answer_question" \in last.calls => last.context # <<>>

C8_Witness ==
    /\ last.op = "query"
    /\ ~BlankQuestion(last.question)
    /\ is_initialized
    /\ chroma_manager = "Real"
    /\ last.failed = {}
    /\ last.retrieved = 0

\* C9: if an adapter call of a query fails (encode_text, the store's query,
\* answer_question) the returned result carries error; a result without error is
\* returned only when no adapter call failed.
C9_FailureCarriesError ==
    (last.op = "query" /\ last.failed # {}) => "error" \in DOMAIN last.result

\* C10: every result of query has all of the fields question, answer, sources,
\* context_used and retrieved_docs.
C10_WellFormedResult ==
    last.op = "query" => ResultFields \subseteq DOMAIN last.result

\* the answer of a query on a pipeline without its dependencies
UnavailableAnswer == "This system requires additional dependencies to function."

\* C11: when the dependency probe failed at construction, then after any
\* sequence of setup_knowledge_base / query / get_knowledge_base_stats / cleanup
\* calls the probe's verdict stands, get_knowledge_base_stats reports
\* system_status "Dependencies missing", every non-blank query returns the fixed
\* unavailable-dependencies answer with empty sources, setup_knowledge_base
\* returns failure, and no call raises.
C11_DependenciesMissing ==
    /\ [](~dependencies_available =>
             /\ last.op = "stats" =>
                    /\ ~last.raised
                    /\ last.stats.system_status = "Dependencies missing"
             /\ (last.op = "query" /\ ~BlankQuestion(last.question)) =>
                    /\ last.result.answer = UnavailableAnswer
                    /\ last.result.sources = <<>>
                    /\ last.calls = {}
             /\ last.op = "setup" => ~last.ok /\ last.stage = "dependencies"
             /\ last.op = "cleanup" => last.llm_cleanup)
    /\ [][~dependencies_available => ~dependencies_available']_vars

C11_Witness ==
    /\ ~dependencies_available
    /\ last.op = "stats"
    /\ last.stats.system_status = "Dependencies missing"
    /\ collection # {}

\* the items a run of setup_knowledge_base on these files hands to the store
Produced(files) ==
    {StoredItem(EncodedChunk(c)) : c \in ProcessDirectory(files).chunks}

\* C12: a second successful setup_knowledge_base on an unchanged corpus
\* produces the chunk ids of the first, leaves the store's total_documents at
\* its value after the first, and the store then holds, under each id of the
\* run, the item the run inserted (an existing id is replaced, not duplicated).
C12_IdempotentReingest ==
    [][(Idle /\ ingested # <<>> /\ last'.op = "setup" /\ last'.ok) =>
           /\ last'.chunk_ids = ingested[1].ids
           /\ Cardinality(collection') = ingested[1].total
           /\ Cardinality({it.id : it \in collection'}) = Cardinality(collection')
           /\ Produced(course_dir'.files) \subseteq collection']_vars

\* C13: after a successful setup_knowledge_base(force_rebuild=True) the store
\* holds exactly the chunks of the current corpus: nothing stored before the
\* call and not produced by this run remains.
C13_ForcedRebuildClears ==
    (last.op = "setup" /\ last.force_rebuild /\ last.ok) =>
        /\ {it.id : it \in collection} = last.chunk_ids
        /\ collection = Produced(course_dir.files)

\* C14: setup_knowledge_base calls its stages in the order chunk, embed, store;
\* a stage that fails or yields nothing keeps every later stage from running
\* (the store is untouched unless add_documents succeeded); and the call
\* returns success only when the three stages ran and every chunk this call
\* produced is in the store, so that a success on an empty store leaves
\* total_documents > 0.
C14_StagesInOrder ==
    [][(Idle /\ last'.op = "setup") =>
           /\ \E k \in 0..3 :
                  last'.calls = SubSeq(<<"process_directory", "encode_chunks",
                                        "add_documents">>, 1, k)
           /\ ~last'.ok => collection' = collection
           /\ last'.ok =>
                  /\ Len(last'.calls) = 3
                  /\ last'.chunk_ids # {}
                  /\ Produced(course_dir'.files) \subseteq collection'
                  /\ collection = {} => Cardinality(collection') > 0]_vars

Successful ==
    /\ last.op = "query"
    /\ "error" \notin DOMAIN last.result
    /\ last.retrieved > 0

\* C16: in a successful query the citations keep the retrieval order:
\* sources[i] is made from retrieved_docs[i] (its file, chunk ordinal and
\* similarity), most similar first, and context_used = len(sources) =
\* len(retrieved_docs).
C16_CitationsKeepOrder ==
    Successful =>
        LET sources == last.result.sources
            docs == last.result.retrieved_docs
        IN /\ Len(sources) = Len(docs)
           /\ last.result.context_used = Len(sources)
           /\ Len(docs) = last.retrieved
           /\ \A i \in 1..Len(docs) :
                  /\ sources[i].file = Get(docs[i].metadata, "source_file", "Unknown")
                  /\ sources[i].chunk_index = Get(docs[i].metadata, "chunk_index", 0)
                  /\ sources[i].similarity = docs[i].similarity
                  /\ last.context[i].content = docs[i].content
           /\ \A i, j \in 1..Len(sources) :
                  i < j => sources[i].similarity >= sources[j].similarity

C16_Witness ==
    /\ Successful
    /\ Len(last.result.sources) = 2
    /\ last.result.sources[1].file # last.result.sources[2].file
    /\ last.result.sources[1].similarity > last.result.sources[2].similarity

\* a similarity between 0.0 and 1.0
InUnitRange(similarity) == 0 <= similarity /\ similarity <= DistanceScale

\* C17: for every distance in [0, 2] the store can return, the similarity of
\* every retrieved item and of every citation, derived as 1 - distance, lies in
\* [0, 1].
C17_SimilarityInUnitRange ==
    (last.op = "query" /\ last.retrieved > 0) =>
        /\ \A i \in 1..Len(last.context) : InUnitRange(last.context[i].similarity)
        /\ \A i \in 1..Len(last.result.sources) :
               InUnitRange(last.result.sources[i].similarity)
        /\ "retrieved_docs" \in DOMAIN last.result =>
               \A i \in 1..Len(last.result.retrieved_docs) :
                   /\ last.result.retrieved_docs[i].distance \in Distances
                   /\ InUnitRange(last.result.retrieved_docs[i].similarity)

\* C18: a citation whose page number is approximated (the item's metadata has
\* no page_number, so the page is chunk_index div ChunksPerPage + 1) is marked
\* approximate; a citation made from a recorded page_number carries it verbatim
\* and is not so marked.
C18_ApproximatePageMarked ==
    Successful =>
        \A i \in 1..Len(last.result.sources) :
            LET source == last.result.sources[i]
                metadata == last.result.retrieved_docs[i].metadata
            IN /\ "approximate" \in DOMAIN source
               /\ IF "page_number" \in DOMAIN metadata
                  THEN /\ source.page_number = metadata.page_number
                       /\ ~source.approximate
                  ELSE /\ source.page_number =
                              (Get(metadata, "chunk_index", 0) \div ChunksPerPage) + 1
                       /\ source.approximate

\* the distinct files and, per file, the distinct locators of a list of sources
FilesOf(sources) == {sources[i].file : i \in 1..Len(sources)}

PagesOf(sources, file_name) ==
    {sources[i].page_number : i \in {j \in 1..Len(sources) : sources[j].file = file_name}}

\* the locators a page text stands for: those printed, or every locator from a
\* to b for a range "a-b"
Denoted(page_text) ==
    IF page_text.sep = "-"
    THEN page_text.numbers[1]..page_text.numbers[2]
    ELSE {page_text.numbers[i] : i \in 1..Len(page_text.numbers)}

Ascending(numbers) == \A i, j \in 1..Len(numbers) : i < j => numbers[i] < numbers[j]

\* C19: create_bibliography gives exactly one entry per distinct file of the
\* sources, in the order the files first appear; the entry of a file stands for
\* exactly that file's distinct locators, printed in ascending order; two
\* citations of one file at locators 2 and 2 give the single entry "Page 2".
C19_OneEntryPerFile ==
    last.op = "bibliography" =>
        LET sources == last.sources
            entries == last.entries
        IN /\ Len(entries) = Cardinality(FilesOf(sources))
           /\ \A f \in FilesOf(sources) :
                  \E k \in 1..Len(entries) :
                      /\ entries[k].name = BaseName(f)
                      /\ Ascending(entries[k].page_text.numbers)
                      /\ Denoted(entries[k].page_text) = PagesOf(sources, f)
                      /\ PagesOf(sources, f) = {2} =>
                             entries[k].page_text =
                                 [word |-> "Page", numbers |-> <<2>>, sep |-> ""]

\* the locators of a file form one run a, a+1, ..., b
Contiguous(pages) ==
    \A x, y \in pages : \A z \in x..y : z \in pages

\* C20: a file cited at three or more contiguous locators, such as {1,2,3}, is
\* rendered with one merged range "a-b" and not as separate locators; and a
\* range "a-b" is printed only for a set of locators that is contiguous from a
\* to b.
C20_MergedContiguousRange ==
    last.op = "bibliography" =>
        \A k \in 1..Len(last.entries) :
            \A f \in FilesOf(last.sources) :
                (last.entries[k].name = BaseName(f)
                 /\ \A g \in FilesOf(last.sources) : BaseName(g) = BaseName(f) => g = f) =>
                    LET pages == PagesOf(last.sources, f)
                        page_text == last.entries[k].page_text
                    IN /\ (Contiguous(pages) /\ Cardinality(pages) >= 3) =>
                              /\ page_text.sep = "-"
                              /\ Len(page_text.numbers) = 2
                       /\ page_text.sep = "-" =>
                              /\ Contiguous(pages)
                              /\ Denoted(page_text) = pages

\* C21: the loaded state is reached only from a successful probe:
\* is_initialized implies dependencies_available in every state, no call
\* changes dependencies_available after construction, and a pipeline
\* constructed without its dependencies is never loaded, whatever is called.
C21_LoadedOnlyAfterProbe ==
    /\ [](is_initialized => dependencies_available)
    /\ [](~dependencies_available =>
             /\ ~is_initialized
             /\ last.op \in {"query", "setup"} => last.constructed = {})
    /\ [][dependencies_available' = dependencies_available]_vars

C21_Witness ==
    /\ ~dependencies_available
    /\ last.op = "setup"
    /\ ~is_initialized
    /\ course_dir.exists
    /\ last.constructed = {}

\* C22: lazy loading goes one way: right after construction is_initialized is
\* false; it becomes true only in setup_knowledge_base or in a query with a
\* non-blank question; once true it stays true, the components stay the same
\* and no later call constructs an adapter.
C22_LazyLoadOneWay ==
    /\ ~is_initialized
    /\ [][(~is_initialized /\ is_initialized') =>
              /\ \/ last'.op = "setup"
                 \/ last'.op = "query" /\ ~BlankQuestion(last'.question)
              /\ last'.constructed =
                     {"EmbeddingManager", "ChromaManager", "GPT4AllManager"}]_vars
    /\ [][is_initialized =>
              /\ is_initialized'
              /\ UNCHANGED <<embedding_manager, chroma_manager, llm_manager>>
              /\ last'.op \in {"query", "setup"} => last'.constructed = {}]_vars

C22_Witness ==
    /\ is_initialized
    /\ last.op = "query"
    /\ ~BlankQuestion(last.question)
    /\ last.loaded_before
    /\ last.constructed = {}
    /\ embedding_manager = "Real"

\* the pipeline runs on the fallback components
OnFallback ==
    /\ embedding_manager = "Mock"
    /\ chroma_manager = "Mock"
    /\ llm_manager = "Mock"

\* C23: once the pipeline runs on fallback components, chosen by the probe at
\* construction or put in place because a load failed, every later call runs on
\* them and none constructs an adapter again; and get_knowledge_base_stats
\* shows the degraded mode in system_status, which then differs from the status
\* of a pipeline that is merely not loaded yet or is ready.
C23_FallbackIsPermanent ==
    /\ [][OnFallback =>
              /\ OnFallback'
              /\ last'.op \in {"query", "setup"} => last'.constructed = {}]_vars
    /\ []((OnFallback /\ last.op = "stats" /\ ~last.raised) =>
              last.stats.system_status \notin {"Ready", "Not initialized"})

\* the system_status get_knowledge_base_stats would report
StatusNow ==
    IF ~dependencies_available THEN "Dependencies missing"
    ELSE IF is_initialized THEN "Ready"
    ELSE "Not initialized"

\* C24: cleanup leaves the logical state as it was: dependencies_available,
\* is_initialized, the three components, the store and the course directory are
\* the same after it, so the system_status reported is the same; it calls the
\* generation component's cleanup exactly when there is one; and it returns,
\* leaving the pipeline between two calls, where query and
\* setup_knowledge_base can be called.
C24_CleanupKeepsState ==
    /\ [][last'.op = "cleanup" =>
              /\ UNCHANGED <<dependencies_available, is_initialized, embedding_manager,
                             chroma_manager, llm_manager, collection, course_dir>>
              /\ StatusNow' = StatusNow
              /\ last'.llm_cleanup = (llm_manager # "None")]_vars
    /\ [][last.op = "cleanup" => (Idle' /\ ~Hung')]_vars

C24_Witness ==
    /\ last.op = "cleanup"
    /\ is_initialized
    /\ llm_manager = "Real"
    /\ last.llm_cleanup
    /\ collection # {}

\* C25: when the course directory is missing, setup_knowledge_base returns
\* failure before any partial work: it constructs no adapter, leaves the load
\* state and the components as they were, and chunks, embeds and stores nothing.
C25_MissingDirectoryNoWork ==
    [][(Idle /\ last'.op = "setup" /\ ~course_dir.exists) =>
           /\ ~last'.ok
           /\ last'.calls = <<>>
           /\ last'.constructed = {}
           /\ UNCHANGED <<is_initialized, embedding_manager, chroma_manager,
                          llm_manager, collection>>]_vars

\* a file of a supported type from which no text is extracted (the extraction
\* failed or the file holds only whitespace)
BadFile(f) ==
    f.suffix \in SUPPORTED_FILE_TYPES /\ f.extra_words = 0 /\ BlankQuestion(f.raw)

\* a file of a supported type with some text in it
ReadableFile(f) == f.suffix \in SUPPORTED_FILE_TYPES /\ ~BadFile(f)

SampleChunkId == ChunkId("sample_content.txt", 0)

\* C27: when the course directory exists and holds no file of a supported type,
\* setup_knowledge_base writes the sample document and ingests it in the same
\* call: the call goes on to the chunk stage, the sample gives a chunk, so the
\* call does not stop for want of files or chunks, and when embedding and
\* storing succeed the sample's chunk is in the store.
C27_SampleDocumentIngested ==
    [][(/\ Idle
        /\ last'.op = "setup"
        /\ dependencies_available
        /\ course_dir.exists
        /\ \A f \in course_dir.files :
               ~(f.dir = "" /\ f.suffix \in SUPPORTED_FILE_TYPES)) =>
           /\ \E f \in course_dir'.files :
                  /\ f \notin course_dir.files
                  /\ f.name = "sample_content.txt"
                  /\ f.dir = ""
           /\ Len(last'.calls) >= 1
           /\ last'.stage \in {"embed", "store", "done"}
           /\ SampleChunkId \in last'.chunk_ids
           /\ last'.ok => \E it \in collection' : it.id = SampleChunkId]_vars

C27_Witness ==
    /\ last.op = "setup"
    /\ last.ok
    /\ last.chunk_ids = {SampleChunkId}
    /\ Cardinality(course_dir.files) = 2
    /\ \E it \in collection : it.id = SampleChunkId

\* C28: within one run of setup_knowledge_base no two different chunks get the
\* same id: the id made of the source file name and the chunk ordinal is unique
\* over all chunks process_directory produced, files of different
\* subdirectories included.
C28_ChunkIdsUnique ==
    (last.op = "setup" /\ Len(last.calls) >= 2) =>
        LET run_chunks == ProcessDirectory(course_dir.files).chunks
        IN /\ \A c1, c2 \in run_chunks :
                  c1 # c2 => EncodedChunk(c1).id # EncodedChunk(c2).id
           /\ Cardinality(last.chunk_ids) = Cardinality(run_chunks)

\* C29: setup_knowledge_base ingests exactly the files it discovered: the files
\* the ingestion stage chunks are the files the discovery step counted as
\* supported, and the sample document is written only when the ingestion stage
\* would otherwise have no supported file to process.
C29_IngestsWhatItDiscovers ==
    [][(Idle /\ last'.op = "setup" /\ Len(last'.calls) >= 1) =>
           /\ ProcessedFiles(course_dir'.files) = SupportedFiles(course_dir'.files)
           /\ course_dir'.files # course_dir.files =>
                  ProcessedFiles(course_dir.files) = {}]_vars

AllAdapters == {"EmbeddingManager", "ChromaManager", "GPT4AllManager"}

\* C30: is_initialized holds only while the three components are real adapters,
\* all constructed by the one load that set it; when a constructor of a load
\* fails, the three components are replaced by the fallbacks together and
\* is_initialized stays false; the three components are never a mix of real
\* and fallback.
C30_NoMixedComponents ==
    /\ [](is_initialized =>
             /\ embedding_manager = "Real"
             /\ chroma_manager = "Real"
             /\ llm_manager = "Real")
    /\ [](embedding_manager = chroma_manager /\ chroma_manager = llm_manager)
    /\ [][(~is_initialized /\ is_initialized') => last'.constructed = AllAdapters]_vars
    /\ [][(/\ last'.op \in {"query", "setup"}
           /\ last'.constructed # {}
           /\ last'.constructed # AllAdapters) =>
              /\ ~is_initialized'
              /\ embedding_manager' = "Mock"
              /\ chroma_manager' = "Mock"
              /\ llm_manager' = "Mock"]_vars

C30_Witness ==
    /\ last.op = "setup"
    /\ last.constructed = {"EmbeddingManager", "ChromaManager"}
    /\ ~is_initialized
    /\ embedding_manager = "Mock"
    /\ llm_manager = "Mock"

====
